---- MODULE Spec2Model ----
(***************************************************************************)
(* Sello Verde (sello_verde.py): scoring engine, tier classifier, site     *)
(* registry and certification ledger.                                      *)
(*                                                                         *)
(* Units.  Python floats are modelled by integers on a fixed scale:        *)
(*   scores and sub-scores   tenths           (95.0 -> 950, 0.6 -> 6)      *)
(*   weights                 hundredths       (0.20 -> 20)                 *)
(*   energy_kwh, water       whole units      (500.0 -> 500)               *)
(*   recycle_percent,                                                      *)
(*   hygiene_pct             hundredths       (0.6 -> 60)                  *)
(*   carbon_kg, kg inputs    tenths           (500 kg -> 5000)             *)
(* A dict entry is an option: <<>> when the key is absent (or null), <<v>> *)
(* when it holds v, so rec.get(k, d) is Get(rec, k, d).                    *)
(***************************************************************************)
EXTENDS Integers, Sequences, FiniteSets, TLC

VARIABLES
    data,       \* the in-memory Sites/Records document (global `data`)
    disk,       \* sello_data.json
    certs,      \* the in-memory certification list (global `certs`)
    diskCerts,  \* sello_certificados.json
    clock,      \* datetime.now(), as a tick counter
    outcome,    \* how the last script run ended: "ok" or the exception raised
    df_ov,      \* the overview table estado_view last rendered
    alive,      \* history: <<site, id, created_at>> of records appended and not deleted
    rec,        \* scoring run: the record given to compute_score_full
    sub,        \* scoring run: the locals w, e, wat, recy, carb, oil_ok, hyg
    score,      \* scoring run: the value returned, <<>> before the call
    s_in,       \* classifier run: the score given to level_from_score
    nivel,      \* classifier run: the tier returned, "" before the call
    mem,        \* concurrent sessions: each session's own global `data`
    pc          \* concurrent sessions: where each session's script run stands

vars == <<data, disk, certs, diskCerts, clock, outcome, df_ov, alive,
          rec, sub, score, s_in, nivel, mem, pc>>

registryVars == <<data, disk, certs, diskCerts, clock, outcome, df_ov, alive>>
scoreVars == <<rec, sub, score>>
levelVars == <<s_in, nivel>>
sessionVars == <<mem, pc>>

----------------------------------------------------------------------------
(* Python helpers *)

None == <<>>
Some(v) == <<v>>

\* dict.get(k, d) on a record whose fields are options
Get(r, k, d) == IF r[k] = None THEN d ELSE r[k][1]

\* n/d rounded to the nearest integer, ties to even (Python's round on an
\* exactly representable tie); n >= 0, d > 0
RoundDiv(n, d) ==
    LET q == n \div d
        r == n % d
    IN  IF 2 * r < d THEN q
        ELSE IF 2 * r > d THEN q + 1
        ELSE IF q % 2 = 0 THEN q ELSE q + 1

----------------------------------------------------------------------------
(* Scoring engine *)

MAP_LVL_get_Swapped(lvl) ==
    CASE lvl = "low" -> 2
      [] lvl = "medium" -> 6
      [] lvl = "high" -> 10
      [] OTHER -> 6

MAP_LVL_get(lvl) ==
    CASE lvl = "low" -> 10
      [] lvl = "medium" -> 6
      [] lvl = "high" -> 2
      [] OTHER -> 6

DEFAULT_WEIGHTS_Renormalised ==
    [waste |-> 25, energy |-> 15, water |-> 15, recycle |-> 15,
     carbon |-> 10, oil |-> 10, hygiene |-> 10]

DEFAULT_WEIGHTS ==
    [waste |-> 20, energy |-> 15, water |-> 15, recycle |-> 15,
     carbon |-> 10, oil |-> 10, hygiene |-> 10]

waste_sub(r) == MAP_LVL_get(Get(r, "waste_level", "medium"))

energy_sub_LevelFirst(r) ==
    IF r.energy_level # None THEN MAP_LVL_get(r.energy_level[1])
    ELSE IF r.energy_kwh = None THEN 6
    ELSE IF r.energy_kwh[1] <= 500 THEN 10
    ELSE IF r.energy_kwh[1] <= 1200 THEN 6
    ELSE 2

energy_sub(r) ==
    IF r.energy_kwh = None THEN MAP_LVL_get(Get(r, "energy_level", "medium"))
    ELSE IF r.energy_kwh[1] <= 500 THEN 10
    ELSE IF r.energy_kwh[1] <= 1200 THEN 6
    ELSE 2

water_sub(r) ==
    IF r.water_liters = None THEN MAP_LVL_get(Get(r, "water_level", "medium"))
    ELSE IF r.water_liters[1] <= 2000 THEN 10
    ELSE IF r.water_liters[1] <= 5000 THEN 6
    ELSE 2

recycle_sub(r) ==
    IF r.recycle_percent = None THEN MAP_LVL_get(Get(r, "recycle_level", "medium"))
    ELSE IF r.recycle_percent[1] >= 60 THEN 10
    ELSE IF r.recycle_percent[1] >= 30 THEN 6
    ELSE 2

carbon_sub(r) ==
    IF r.carbon_kg = None THEN 6
    ELSE IF r.carbon_kg[1] <= 5000 THEN 10
    ELSE IF r.carbon_kg[1] <= 12000 THEN 6
    ELSE 2

oil_sub(r) == IF Get(r, "oil_delivered", FALSE) THEN 10 ELSE 2

hygiene_sub(r) ==
    IF r.hygiene_pct = None THEN 6
    ELSE IF r.hygiene_pct[1] >= 90 THEN 10
    ELSE IF r.hygiene_pct[1] >= 70 THEN 6
    ELSE 2

\* the locals of compute_score_full at its return statement
sub_scores(r) ==
    [w |-> waste_sub(r), e |-> energy_sub(r), wat |-> water_sub(r),
     recy |-> recycle_sub(r), carb |-> carbon_sub(r), oil_ok |-> oil_sub(r),
     hyg |-> hygiene_sub(r)]

\* (sum of weight * sub-score) * 100, in thousandths of a point
weighted_sum(sc, weights) ==
    (weights.waste * sc.w + weights.energy * sc.e + weights.water * sc.wat
     + weights.recycle * sc.recy + weights.carbon * sc.carb
     + weights.oil * sc.oil_ok + weights.hygiene * sc.hyg) * 100

\* round(score, 1): thousandths of a point to tenths
round1(milli) == RoundDiv(milli, 100)

compute_score_full(r) == round1(weighted_sum(sub_scores(r), DEFAULT_WEIGHTS))

level_from_score_Strict(s) ==
    IF s > 760 THEN "Oro"
    ELSE IF s > 410 THEN "Plata"
    ELSE "Bronce"

level_from_score(s) ==
    IF s >= 760 THEN "Oro"
    ELSE IF s >= 410 THEN "Plata"
    ELSE "Bronce"

----------------------------------------------------------------------------
(* Bounds of the model *)

\* records appended in one run of the model (each append ticks the clock)
MaxClock == 3
\* certification entries issued in one run of Spec, and of SpecLedger
MaxCerts == 1
MaxLedger == 2
\* records appended in one run of SpecLedger, after the first of each site
MaxLedgerAppends == 1
\* distinct values of str(uuid.uuid4())[:8]; a small pool, so ids may collide
MaxIds == 2

Ids == 1..MaxIds
Months == {"2025-03", "2025-04"}
WasteChoices == {"low"}

----------------------------------------------------------------------------
(* Persisted documents and the record built by the form *)

\* keys of data["sedes"] in dict (insertion) order
SedeOrder == <<"Domino_Miraflores", "Domino_SanIsidro", "Domino_LimaCentro">>
SedeKeys == {SedeOrder[i] : i \in 1..Len(SedeOrder)}

\* the document ensure_files writes when sello_data.json does not exist
base ==
    [sedes |->
      [k \in SedeKeys |->
        CASE k = "Domino_Miraflores" ->
               [nombre |-> "Domino's - Miraflores", municipio |-> "Miraflores",
                registros |-> <<>>]
          [] k = "Domino_SanIsidro" ->
               [nombre |-> "Domino's - San Isidro", municipio |-> "San Isidro",
                registros |-> <<>>]
          [] OTHER ->
               [nombre |-> "Domino's - Lima Centro", municipio |-> "Lima",
                registros |-> <<>>]]]

load_data == disk
load_certs == diskCerts

\* the widgets' default values (value=...): kWh, litres, kg in tenths, boxes ticked
FormDefaults ==
    [energy_kwh |-> 800, water_liters |-> 2500, carton_kg |-> 500,
     plastico_kg |-> 50, organico_kg |-> 200, checks |-> 5]

\* what the user enters: the month and the waste level vary, the rest stays
\* at the widgets' defaults
FormInputs ==
    {[month |-> m, waste_level |-> w, energy_kwh |-> FormDefaults.energy_kwh,
      water_liters |-> FormDefaults.water_liters,
      carton_kg |-> FormDefaults.carton_kg,
      plastico_kg |-> FormDefaults.plastico_kg,
      organico_kg |-> FormDefaults.organico_kg,
      checks |-> FormDefaults.checks] : m \in Months, w \in WasteChoices}

Max2(a, b) == IF a >= b THEN a ELSE b

\* round((carton + plastico) / max(1.0, carton + plastico + organico + 10.0), 2)
recycle_percent_of(f) ==
    RoundDiv((f.carton_kg + f.plastico_kg) * 100,
             Max2(10, f.carton_kg + f.plastico_kg + f.organico_kg + 100))

\* round(sum([c1..c5]) / 5, 2)
hygiene_pct_of(f) == RoundDiv(f.checks * 100, 5)

\* round(0.475 * energy_kwh + 0.0, 1), in tenths of a kg
carbon_est_of(f) == RoundDiv(475 * f.energy_kwh, 100)

\* the dict `rec` built under "Guardar registro completo"; the fields no
\* claim reads (kg, oil litres, temperatures, evidence) are left out
new_record(f, id, now) ==
    [id |-> id, month |-> f.month,
     energy_kwh |-> Some(f.energy_kwh), water_liters |-> Some(f.water_liters),
     waste_level |-> Some(f.waste_level), oil_delivered |-> Some(FALSE),
     recycle_percent |-> Some(recycle_percent_of(f)),
     hygiene_pct |-> Some(hygiene_pct_of(f)),
     carbon_kg |-> Some(carbon_est_of(f)),
     energy_level |-> None, water_level |-> None, recycle_level |-> None,
     created_at |-> now]

----------------------------------------------------------------------------
(* Site registry: the list operations of empresa_view *)

registros(d, k) == d.sedes[k].registros

\* sede["registros"].append(rec)
append_rec_AtFront(d, sel, r) ==
    [d EXCEPT !.sedes[sel].registros = <<r>> \o @]

append_rec(d, sel, r) ==
    [d EXCEPT !.sedes[sel].registros = Append(@, r)]

\* next((r for r in sede["registros"] if r["id"]==sel_id), None), as the
\* index of the first match, 0 for None
find_first_OrLast(regs, sel_id) ==
    IF \E i \in 1..Len(regs) : regs[i].id = sel_id
    THEN CHOOSE i \in 1..Len(regs) :
           /\ regs[i].id = sel_id
           /\ \A j \in 1..(i - 1) : regs[j].id # sel_id
    ELSE Len(regs)

find_first(regs, sel_id) ==
    IF \E i \in 1..Len(regs) : regs[i].id = sel_id
    THEN CHOOSE i \in 1..Len(regs) :
           /\ regs[i].id = sel_id
           /\ \A j \in 1..(i - 1) : regs[j].id # sel_id
    ELSE 0

\* rec_obj["oil_delivered"] = True
mark_oil(d, sel, sel_id) ==
    LET i == find_first(registros(d, sel), sel_id)
    IN  [d EXCEPT !.sedes[sel].registros[i].oil_delivered = Some(TRUE)]

\* sede["registros"] = [r for r in sede["registros"] if r["id"]!=sel_id]
delete_rec_KeepMatching(d, sel, sel_id) ==
    LET Keep(r) == r.id = sel_id
    IN  [d EXCEPT !.sedes[sel].registros = SelectSeq(@, Keep)]

delete_rec(d, sel, sel_id) ==
    LET Keep(r) == r.id # sel_id
    IN  [d EXCEPT !.sedes[sel].registros = SelectSeq(@, Keep)]

\* sede["registros"][-1] if sede["registros"] else None
latest_First(d, k) ==
    LET regs == registros(d, k)
    IN  IF regs = <<>> THEN None ELSE Some(regs[1])

latest(d, k) ==
    LET regs == registros(d, k)
    IN  IF regs = <<>> THEN None ELSE Some(regs[Len(regs)])

----------------------------------------------------------------------------
(* Overview table of estado_view *)

\* a cell of the "Score" column: a float, or the string "-"
FloatCell(x) == [type |-> "float", num |-> x, str |-> ""]
StrCell(s) == [type |-> "str", num |-> 0, str |-> s]

\* score or "-"   (None and 0.0 are falsy)
score_or_dash(sc) ==
    IF sc = None \/ sc = Some(0) THEN StrCell("-") ELSE FloatCell(sc[1])

\* the dict appended to `rows` for one site
overview_row(d, key) ==
    LET last == latest(d, key)
        sc == IF last # None THEN Some(compute_score_full(last[1])) ELSE None
        level == IF last # None THEN level_from_score(sc[1]) ELSE "Sin datos"
    IN  [id |-> key, Sede |-> d.sedes[key].nombre,
         Municipio |-> d.sedes[key].municipio,
         UltimoMes |-> IF last # None THEN last[1].month ELSE "-",
         Score |-> score_or_dash(sc), Nivel |-> level]

\* rows, in the order of data["sedes"].items()
overview_rows(d) == [i \in 1..Len(SedeOrder) |-> overview_row(d, SedeOrder[i])]

IndexPermutations(n) ==
    {p \in [1..n -> 1..n] : \A i, j \in 1..n : i # j => p[i] # p[j]}

\* comparing a str with a float raises TypeError
sort_raises(rows) ==
    \E i, j \in 1..Len(rows) : rows[i].Score.type # rows[j].Score.type

\* DataFrame(rows).sort_values(by="Score", ascending=False, na_position="last")
\* on a column of one type: every arrangement in descending order (the order
\* of equal scores is left open)
sort_values(rows) ==
    {[i \in 1..Len(rows) |-> rows[p[i]]] : p \in
        {q \in IndexPermutations(Len(rows)) :
            \A i, j \in 1..Len(rows) :
                i < j => rows[q[i]].Score.num >= rows[q[j]].Score.num}}

NoView == <<>>

----------------------------------------------------------------------------
(* Certification ledger *)

\* the dict `reg` built under "Emitir Sello Verde (registrar)"
\* certs.append(reg)
append_cert_AtFront(c, reg) == <<reg>> \o c

append_cert(c, reg) == Append(c, reg)

new_cert(id, sel, sede, sc, lvl, now) ==
    [id |-> id, sede_id |-> sel, sede_nombre |-> sede.nombre, score |-> sc,
     nivel |-> lvl, fecha |-> now, emitido_por |-> "Inspector (PRO)"]

----------------------------------------------------------------------------
(* One action per script run: the module reloads both documents, then the  *)
(* view's handler runs.                                                    *)

\* what an unknown key and a raising sort leave behind: nothing is written
Raised(exc) ==
    /\ outcome' = exc
    /\ data' = load_data
    /\ certs' = load_certs
    /\ df_ov' = NoView
    /\ UNCHANGED <<disk, diskCerts, clock, alive>>

\* empresa_view, "Guardar registro completo"
GuardarRegistro(sel, f, id) ==
    /\ IF sel \notin DOMAIN load_data.sedes
       THEN Raised("KeyError")
       ELSE /\ data' = append_rec(load_data, sel, new_record(f, id, clock))
            /\ disk' = data'
            /\ clock' = clock + 1
            /\ alive' = alive \cup {<<sel, id, clock>>}
            /\ outcome' = "ok"
            /\ certs' = load_certs
            /\ df_ov' = NoView
            /\ UNCHANGED diskCerts
    /\ UNCHANGED <<scoreVars, levelVars, sessionVars>>

\* empresa_view, "Marcar aceite como entregado al gestor (comprobante)"
MarcarAceite(sel, sel_id) ==
    /\ IF sel \notin DOMAIN load_data.sedes
       THEN Raised("KeyError")
       ELSE /\ IF find_first(registros(load_data, sel), sel_id) = 0
               THEN /\ data' = load_data
                    /\ UNCHANGED disk
               ELSE /\ data' = mark_oil(load_data, sel, sel_id)
                    /\ disk' = data'
            /\ outcome' = "ok"
            /\ certs' = load_certs
            /\ df_ov' = NoView
            /\ UNCHANGED <<diskCerts, clock, alive>>
    /\ UNCHANGED <<scoreVars, levelVars, sessionVars>>

\* empresa_view, "Eliminar registro"
EliminarRegistro(sel, sel_id) ==
    /\ IF sel \notin DOMAIN load_data.sedes
       THEN Raised("KeyError")
       ELSE /\ IF find_first(registros(load_data, sel), sel_id) = 0
               THEN /\ data' = load_data
                    /\ UNCHANGED disk
               ELSE /\ data' = delete_rec(load_data, sel, sel_id)
                    /\ disk' = data'
            /\ alive' = {a \in alive : ~(a[1] = sel /\ a[2] = sel_id)}
            /\ outcome' = "ok"
            /\ certs' = load_certs
            /\ df_ov' = NoView
            /\ UNCHANGED <<diskCerts, clock>>
    /\ UNCHANGED <<scoreVars, levelVars, sessionVars>>

\* estado_view rendered, no button pressed
VerEstado ==
    /\ IF sort_raises(overview_rows(load_data))
       THEN Raised("TypeError")
       ELSE /\ df_ov' \in sort_values(overview_rows(load_data))
            /\ outcome' = "ok"
            /\ data' = load_data
            /\ certs' = load_certs
            /\ UNCHANGED <<disk, diskCerts, clock, alive>>
    /\ UNCHANGED <<scoreVars, levelVars, sessionVars>>

\* estado_view, "Emitir Sello Verde (registrar)": the button is drawn after the
\* overview table, and only for a site that has records
EmitirSello(sel, id) ==
    /\ IF sort_raises(overview_rows(load_data))
       THEN Raised("TypeError")
       ELSE /\ df_ov' \in sort_values(overview_rows(load_data))
            /\ data' = load_data
            /\ IF sel \notin DOMAIN load_data.sedes
               THEN /\ outcome' = "KeyError"
                    /\ certs' = load_certs
                    /\ UNCHANGED diskCerts
               ELSE /\ outcome' = "ok"
                    /\ IF registros(load_data, sel) # <<>>
                       THEN LET last == latest(load_data, sel)[1]
                                sc == compute_score_full(last)
                            IN  /\ certs' = append_cert(load_certs,
                                               new_cert(id, sel, load_data.sedes[sel],
                                                        sc, level_from_score(sc), clock))
                                /\ diskCerts' = certs'
                       ELSE /\ certs' = load_certs
                            /\ UNCHANGED diskCerts
            /\ UNCHANGED <<disk, clock, alive>>
    /\ UNCHANGED <<scoreVars, levelVars, sessionVars>>

\* a key the registry does not hold, beside the three it does
SelInputs == SedeKeys \cup {"Domino_Desconocida"}

\* the browser sessions of the concurrent runs; each script run starts by
\* loading the document
Sessions == {"A", "B"}

SessionsAtStart ==
    /\ mem = [s \in Sessions |-> base]
    /\ pc = [s \in Sessions |-> "start"]

Init ==
    /\ SessionsAtStart
    /\ data = base
    /\ disk = base
    /\ certs = <<>>
    /\ diskCerts = <<>>
    /\ clock = 0
    /\ outcome = "ok"
    /\ df_ov = NoView
    /\ alive = {}
    /\ rec = None
    /\ sub = None
    /\ score = None
    /\ s_in = 0
    /\ nivel = ""

\* the model stops appending at `cap` records and issuing at `cap` entries
CanAppend(cap) == clock < cap
CanIssue(cap) == Len(diskCerts) < cap

Next ==
    \/ /\ CanAppend(MaxClock)
       /\ \E sel \in SelInputs, f \in FormInputs, id \in Ids :
            GuardarRegistro(sel, f, id)
    \/ \E sel \in SelInputs, sel_id \in Ids : MarcarAceite(sel, sel_id)
    \/ \E sel \in SelInputs, sel_id \in Ids : EliminarRegistro(sel, sel_id)
    \/ VerEstado
    \/ /\ CanIssue(MaxCerts)
       /\ \E sel \in SelInputs, id \in Ids : EmitirSello(sel, id)

Spec == Init /\ [][Next]_vars

\* the registry alone: the runs of empresa_view and the overview of estado_view
NextRegistry ==
    \/ /\ CanAppend(MaxClock)
       /\ \E sel \in SelInputs, f \in FormInputs, id \in Ids :
            GuardarRegistro(sel, f, id)
    \/ \E sel \in SelInputs, sel_id \in Ids : MarcarAceite(sel, sel_id)
    \/ \E sel \in SelInputs, sel_id \in Ids : EliminarRegistro(sel, sel_id)
    \/ VerEstado

SpecRegistry == Init /\ [][NextRegistry]_vars

\* The ledger runs start where every site has reported once (three runs of
\* "Guardar registro completo", one per site in page order), report a
\* single month, and have room for a longer ledger.
LedgerForms == {f \in FormInputs : f.month = "2025-03"}
\* no claim reads an entry's id: the ledger runs draw it from one value
LedgerCertIds == {1}

SedeIndex(k) == CHOOSE i \in 1..Len(SedeOrder) : SedeOrder[i] = k

seeded ==
    [sedes |->
      [k \in SedeKeys |->
        [base.sedes[k] EXCEPT !.registros =
          <<new_record(CHOOSE f \in LedgerForms : TRUE, 1, SedeIndex(k) - 1)>>]]]

InitLedger ==
    /\ SessionsAtStart
    /\ data = seeded
    /\ disk = seeded
    /\ certs = <<>>
    /\ diskCerts = <<>>
    /\ clock = Len(SedeOrder)
    /\ outcome = "ok"
    /\ df_ov = NoView
    /\ alive = {<<k, 1, SedeIndex(k) - 1>> : k \in SedeKeys}
    /\ rec = None
    /\ sub = None
    /\ score = None
    /\ s_in = 0
    /\ nivel = ""

NextLedger ==
    \/ /\ CanAppend(Len(SedeOrder) + MaxLedgerAppends)
       /\ \E sel \in SelInputs, f \in LedgerForms, id \in Ids :
            GuardarRegistro(sel, f, id)
    \/ \E sel \in SelInputs, sel_id \in Ids : MarcarAceite(sel, sel_id)
    \/ \E sel \in SelInputs, sel_id \in Ids : EliminarRegistro(sel, sel_id)
    \/ VerEstado
    \/ /\ CanIssue(MaxLedger)
       /\ \E sel \in SelInputs, id \in LedgerCertIds : EmitirSello(sel, id)

SpecLedger == InitLedger /\ [][NextLedger]_vars

----------------------------------------------------------------------------
(* Concurrent sessions.  Each browser session runs the script in its own   *)
(* thread with its own global `data`: a run loads the whole document, the  *)
(* pressed button changes the run's copy and writes the whole copy back.   *)
(* Nothing orders the runs of two sessions, so a run is two steps here:    *)
(* the load, then the handler with its save.                               *)

\* records appended in one run of SpecSessions
MaxSessionAppends == 2

\* the created_at values of a site's records in document d
stamps(d, k) ==
    {registros(d, k)[i].created_at : i \in 1..Len(registros(d, k))}

save_data_KeepNewer(d, old) ==
    [sedes |->
      [k \in DOMAIN d.sedes |->
        [d.sedes[k] EXCEPT !.registros =
          @ \o SelectSeq(registros(old, k),
                         LAMBDA r : r.created_at \notin stamps(d, k))]]]

\* the file's content after save_data(d) when it held old: open(..., "w")
\* truncates, json.dump writes d
save_data(d, old) == d

\* module start-up of a run of session s
SessionLoad(s) ==
    /\ pc[s] = "start"
    /\ mem' = [mem EXCEPT ![s] = load_data]
    /\ pc' = [pc EXCEPT ![s] = "loaded"]
    /\ UNCHANGED <<registryVars, scoreVars, levelVars>>

\* what a handler of session s leaves outside the Sites/Records document
SessionFrame(s) ==
    /\ pc' = [pc EXCEPT ![s] = "start"]
    /\ UNCHANGED <<data, certs, diskCerts, outcome, df_ov, scoreVars, levelVars>>

\* "Guardar registro completo" in session s, then st.experimental_rerun()
SessionGuardar(s, sel, f, id) ==
    /\ pc[s] = "loaded"
    /\ mem' = [mem EXCEPT ![s] = append_rec(@, sel, new_record(f, id, clock))]
    /\ disk' = save_data(mem'[s], disk)
    /\ clock' = clock + 1
    /\ alive' = alive \cup {<<sel, id, clock>>}
    /\ SessionFrame(s)

\* "Marcar aceite como entregado al gestor" in session s; the button is
\* rendered for a record of the session's copy only
SessionMarcar(s, sel, sel_id) ==
    /\ pc[s] = "loaded"
    /\ find_first(registros(mem[s], sel), sel_id) # 0
    /\ mem' = [mem EXCEPT ![s] = mark_oil(@, sel, sel_id)]
    /\ disk' = save_data(mem'[s], disk)
    /\ UNCHANGED <<clock, alive>>
    /\ SessionFrame(s)

\* "Eliminar registro" in session s
SessionEliminar(s, sel, sel_id) ==
    /\ pc[s] = "loaded"
    /\ find_first(registros(mem[s], sel), sel_id) # 0
    /\ mem' = [mem EXCEPT ![s] = delete_rec(@, sel, sel_id)]
    /\ disk' = save_data(mem'[s], disk)
    /\ alive' = {a \in alive : ~(a[1] = sel /\ a[2] = sel_id)}
    /\ UNCHANGED clock
    /\ SessionFrame(s)

\* the run of session s ends with no button pressed
SessionEnd(s) ==
    /\ pc[s] = "loaded"
    /\ UNCHANGED <<mem, disk, clock, alive>>
    /\ SessionFrame(s)

NextSessions ==
    \/ \E s \in Sessions : SessionLoad(s)
    \/ /\ CanAppend(MaxSessionAppends)
       /\ \E s \in Sessions, sel \in SedeKeys, f \in LedgerForms, id \in Ids :
            SessionGuardar(s, sel, f, id)
    \/ \E s \in Sessions, sel \in SedeKeys, sel_id \in Ids :
         SessionMarcar(s, sel, sel_id)
    \/ \E s \in Sessions, sel \in SedeKeys, sel_id \in Ids :
         SessionEliminar(s, sel, sel_id)
    \/ \E s \in Sessions : SessionEnd(s)

SpecSessions == Init /\ [][NextSessions]_vars

----------------------------------------------------------------------------
(* Scoring run: compute_score_full applied to one record *)

LevelInputs == {None, Some("low"), Some("medium"), Some("high"), Some("otro")}
EnergyInputs == {None, Some(500), Some(1200), Some(1201)}
WaterInputs == {None, Some(2000), Some(5000), Some(5001)}
RecycleInputs == {None, Some(60), Some(30), Some(29)}
CarbonInputs == {None, Some(5000), Some(12000), Some(12001)}
HygieneInputs == {None, Some(90), Some(70), Some(69)}
OilInputs == {None, Some(TRUE), Some(FALSE)}

ScoreInputs ==
    [id : {1}, month : {"2025-03"}, created_at : {0},
     waste_level : LevelInputs,
     energy_kwh : EnergyInputs, energy_level : LevelInputs,
     water_liters : WaterInputs, water_level : LevelInputs,
     recycle_percent : RecycleInputs, recycle_level : LevelInputs,
     carbon_kg : CarbonInputs, hygiene_pct : HygieneInputs,
     oil_delivered : OilInputs]

InitScore ==
    /\ SessionsAtStart
    /\ rec \in ScoreInputs
    /\ sub = None
    /\ score = None
    /\ data = base
    /\ disk = base
    /\ certs = <<>>
    /\ diskCerts = <<>>
    /\ clock = 0
    /\ outcome = "ok"
    /\ df_ov = NoView
    /\ alive = {}
    /\ s_in = 0
    /\ nivel = ""

ScoreRecord ==
    /\ score = None
    /\ sub' = sub_scores(rec)
    /\ score' = Some(compute_score_full(rec))
    /\ UNCHANGED <<rec, registryVars, levelVars, sessionVars>>

NextScore == ScoreRecord

SpecScore == InitScore /\ [][NextScore]_vars

----------------------------------------------------------------------------
(* Classifier run: level_from_score applied to one score *)

\* scores from -ScoreSlack to 1000 + ScoreSlack tenths: the scale and a margin
\* on both sides
ScoreSlack == 50

InitLevel ==
    /\ SessionsAtStart
    /\ s_in \in (0 - ScoreSlack)..(1000 + ScoreSlack)
    /\ nivel = ""
    /\ rec = None
    /\ sub = None
    /\ score = None
    /\ data = base
    /\ disk = base
    /\ certs = <<>>
    /\ diskCerts = <<>>
    /\ clock = 0
    /\ outcome = "ok"
    /\ df_ov = NoView
    /\ alive = {}

ClassifyScore ==
    /\ nivel = ""
    /\ nivel' = level_from_score(s_in)
    /\ UNCHANGED <<s_in, registryVars, scoreVars, sessionVars>>

NextLevel == ClassifyScore

SpecLevel == InitLevel /\ [][NextLevel]_vars

----------------------------------------------------------------------------
(* Properties of the scoring engine and of the classifier *)

Scored == score # None

NoNumericInput(r) ==
    /\ r.energy_kwh = None
    /\ r.water_liters = None
    /\ r.recycle_percent = None
    /\ r.carbon_kg = None
    /\ r.hygiene_pct = None

AllLevels(r, lvl) ==
    /\ r.waste_level = Some(lvl)
    /\ r.energy_level = Some(lvl)
    /\ r.water_level = Some(lvl)
    /\ r.recycle_level = Some(lvl)

AllLowDelivered(r) ==
    NoNumericInput(r) /\ AllLevels(r, "low") /\ r.oil_delivered = Some(TRUE)

AllHighNotDelivered(r) ==
    NoNumericInput(r) /\ AllLevels(r, "high") /\ r.oil_delivered # Some(TRUE)

\* C3, as the specification states it: a record with only categorical inputs,
\* all "low", and oil delivered scores 95.0 and is Oro; one with every
\* category "high" and oil not delivered scores 19.0 and is Bronce.
C3_AllLow95AllHigh19 ==
    Scored =>
        /\ AllLowDelivered(rec) =>
             score = Some(950) /\ level_from_score(score[1]) = "Oro"
        /\ AllHighNotDelivered(rec) =>
             score = Some(190) /\ level_from_score(score[1]) = "Bronce"

\* C3, amended: carbon and hygiene have no categorical input, so a record with
\* only categorical inputs takes 0.6 for both: all "low" and oil delivered
\* scores 87.0 (Oro), all "high" and oil not delivered scores 27.0 (Bronce).
C3_AllLow87AllHigh27 ==
    Scored =>
        /\ AllLowDelivered(rec) =>
             score = Some(870) /\ level_from_score(score[1]) = "Oro"
        /\ AllHighNotDelivered(rec) =>
             score = Some(270) /\ level_from_score(score[1]) = "Bronce"

C3_Witness ==
    /\ Scored
    /\ AllLowDelivered(rec)
    /\ score = Some(870)
    /\ sub.carb = 6
    /\ sub.hyg = 6

\* C4: whatever fields a record holds, the score lies in [0, 100] and never
\* exceeds 95.0, the default weights summing to 0.95; 95.0 is reached.
C4_ScoreRange ==
    Scored => score[1] >= 0 /\ score[1] <= 1000 /\ score[1] <= 950

C4_Witness ==
    /\ Scored
    /\ score = Some(950)
    /\ rec.waste_level = Some("low")
    /\ rec.oil_delivered = Some(TRUE)

\* C5: level_from_score is total with inclusive lower boundaries: 76 and above
\* is Oro, 41 up to (not including) 76 is Plata, below 41 is Bronce; so 76.0
\* is Oro, 75.9 Plata, 41.0 Plata and 40.9 Bronce.
C5_TierBoundaries ==
    nivel # "" =>
        /\ nivel \in {"Oro", "Plata", "Bronce"}
        /\ s_in >= 760 => nivel = "Oro"
        /\ (s_in >= 410 /\ s_in < 760) => nivel = "Plata"
        /\ s_in < 410 => nivel = "Bronce"
        /\ s_in = 760 => nivel = "Oro"
        /\ s_in = 759 => nivel = "Plata"
        /\ s_in = 410 => nivel = "Plata"
        /\ s_in = 409 => nivel = "Bronce"

C5_Witness == s_in = 760 /\ nivel = "Oro"

\* the band of a measurement where small is good / where large is good
BandLow(v, good, fair) == IF v <= good THEN 10 ELSE IF v <= fair THEN 6 ELSE 2
BandHigh(v, good, fair) == IF v >= good THEN 10 ELSE IF v >= fair THEN 6 ELSE 2
LevelBand(l) ==
    IF l = Some("low") THEN 10 ELSE IF l = Some("high") THEN 2 ELSE 6

\* C6: for energy, water and recycling a measurement that is present decides
\* the sub-score by its thresholds alone, whatever level is also present
\* (500 kWh with level "high" gives 1.0); the level counts only when the
\* measurement is absent.
C6_NumericPrecedence ==
    Scored =>
        /\ sub.e = IF rec.energy_kwh # None
                   THEN BandLow(rec.energy_kwh[1], 500, 1200)
                   ELSE LevelBand(rec.energy_level)
        /\ sub.wat = IF rec.water_liters # None
                     THEN BandLow(rec.water_liters[1], 2000, 5000)
                     ELSE LevelBand(rec.water_level)
        /\ sub.recy = IF rec.recycle_percent # None
                      THEN BandHigh(rec.recycle_percent[1], 60, 30)
                      ELSE LevelBand(rec.recycle_level)
        /\ (rec.energy_kwh = Some(500) /\ rec.energy_level = Some("high")) =>
             sub.e = 10

C6_Witness ==
    /\ Scored
    /\ rec.energy_kwh = Some(500)
    /\ rec.energy_level = Some("high")
    /\ sub.e = 10

----------------------------------------------------------------------------
(* Properties of the registry and of the ledger *)

IsPrefix(a, b) == Len(a) <= Len(b) /\ \A i \in 1..Len(a) : b[i] = a[i]

\* C1: an entry's score and tier never change once appended, whatever happens
\* to the source record (oil marked delivered, record deleted, newer records
\* appended) and whatever is issued later; the values an issuance stores are
\* those of the site's last record at that moment.
C1_FrozenAtIssuance ==
    [][/\ Len(certs') >= Len(certs)
       /\ \A i \in 1..Len(certs) :
            /\ certs'[i].sede_id = certs[i].sede_id
            /\ certs'[i].score = certs[i].score
            /\ certs'[i].nivel = certs[i].nivel
       /\ Len(certs') > Len(certs) =>
            LET reg == certs'[Len(certs')]
                regs == data.sedes[reg.sede_id].registros
            IN  /\ regs # <<>>
                /\ reg.score = compute_score_full(regs[Len(regs)])
                /\ reg.nivel = level_from_score(reg.score)
      ]_vars

\* two entries of one site, issued before and after its oil was marked
\* delivered: the first kept 75.0 / Plata
C1_Witness ==
    /\ Len(certs) = 2
    /\ certs[1].sede_id = certs[2].sede_id
    /\ certs[1].score = 750 /\ certs[1].nivel = "Plata"
    /\ certs[2].score = 830 /\ certs[2].nivel = "Oro"
    /\ Len(registros(data, certs[1].sede_id)) = 2

\* C2: the ledger is append-only: each step leaves the previous ledger a prefix
\* of the next, in memory and on disk; only the issuance extends it, by one
\* entry at the end.
C2_AppendOnly ==
    [][/\ IsPrefix(certs, certs')
       /\ IsPrefix(diskCerts, diskCerts')
       /\ certs' # certs =>
            /\ Len(certs') = Len(certs) + 1
            /\ diskCerts' = certs'
            /\ \E sel \in SedeKeys, id \in LedgerCertIds : EmitirSello(sel, id)
      ]_vars

\* a ledger of two entries that outlived the deletion of a site's records
C2_Witness ==
    /\ Len(certs) = 2
    /\ diskCerts = certs
    /\ registros(data, certs[1].sede_id) = <<>>

UnknownSede(sel) == sel \notin DOMAIN data.sedes
AbsentId(sel, sel_id) ==
    \A i \in 1..Len(registros(data, sel)) : registros(data, sel)[i].id # sel_id
RegistryUnchanged == data' = data /\ disk' = disk

RECURSIVE WithoutId(_, _)
WithoutId(seq, sel_id) ==
    IF seq = <<>> THEN <<>>
    ELSE IF Head(seq).id = sel_id THEN WithoutId(Tail(seq), sel_id)
    ELSE <<Head(seq)>> \o WithoutId(Tail(seq), sel_id)

\* C8: delete keeps the site's records whose id differs, in their order, and
\* leaves the other sites alone; with no record of that id it changes nothing
\* and raises nothing.
C8_DeleteFrame ==
    [][\A sel \in SedeKeys, sel_id \in Ids :
         EliminarRegistro(sel, sel_id) =>
           /\ outcome' = "ok"
           /\ registros(data', sel) = WithoutId(registros(data, sel), sel_id)
           /\ \A k \in SedeKeys \ {sel} : data'.sedes[k] = data.sedes[k]
           /\ data'.sedes[sel].nombre = data.sedes[sel].nombre
           /\ disk' = data'
           /\ AbsentId(sel, sel_id) => RegistryUnchanged
      ]_vars

\* a site that kept its first and third record after the second was deleted
C8_Witness ==
    \E k \in SedeKeys :
        /\ Len(registros(data, k)) = 2
        /\ registros(data, k)[1].created_at = 0
        /\ registros(data, k)[2].created_at = 2
        /\ <<k, registros(data, k)[1].id, 1>> \notin alive
        /\ clock = 3
        /\ Cardinality(alive) = 2
        /\ disk = data

AliveOf(k) == {a \in alive : a[1] = k}

\* C9: latest(site) is the most recently appended record of the site that has
\* not been deleted, whatever the months, and is none exactly when the site
\* has no records.
C9_LatestIsLastAppended ==
    \A k \in SedeKeys :
        /\ latest(data, k) = None <=> registros(data, k) = <<>>
        /\ latest(data, k) = None <=> AliveOf(k) = {}
        /\ latest(data, k) # None =>
             \E a \in AliveOf(k) :
                /\ \A b \in AliveOf(k) : b[3] <= a[3]
                /\ latest(data, k)[1].created_at = a[3]
                /\ latest(data, k)[1].id = a[2]

\* the latest record carries an earlier month than the one before it, after
\* a deletion elsewhere
C9_Witness ==
    \E k \in SedeKeys :
        /\ Len(registros(data, k)) = 2
        /\ registros(data, k)[1].month = "2025-04"
        /\ registros(data, k)[2].month = "2025-03"
        /\ latest(data, k) = Some(registros(data, k)[2])
        /\ Cardinality(alive) < clock

HasRecords(k) == registros(data, k) # <<>>

\* C10: in every registry state the overview has one row per site, in
\* descending order of the latest record's score, the sites without records
\* after all the others, with tier "Sin datos" and the score placeholder.
C10_OverviewSorted ==
    [][VerEstado =>
         /\ outcome' = "ok"
         /\ Len(df_ov') = Len(SedeOrder)
         /\ \A k \in SedeKeys : \E i \in 1..Len(df_ov') : df_ov'[i].id = k
         /\ \A i, j \in 1..Len(df_ov') :
              i < j =>
                /\ HasRecords(df_ov'[j].id) => HasRecords(df_ov'[i].id)
                /\ HasRecords(df_ov'[j].id) =>
                     df_ov'[i].Score.num >= df_ov'[j].Score.num
         /\ \A i \in 1..Len(df_ov') :
              ~HasRecords(df_ov'[i].id) =>
                 df_ov'[i].Nivel = "Sin datos" /\ df_ov'[i].Score = StrCell("-")
      ]_vars

----------------------------------------------------------------------------
(* Properties of concurrent sessions *)

\* the session whose handler wrote the document in this step
Wrote(s) == pc[s] = "loaded" /\ pc'[s] = "start" /\ disk' # disk

\* C11: last writer wins: a session's write leaves on disk exactly the
\* session's own copy, so a record the other session persisted after this
\* session loaded is absent from the document once this session has written;
\* the state where a persisted, never deleted record is missing is reachable.
C11_LastWriterWins ==
    [][\A s \in Sessions :
         Wrote(s) =>
           /\ disk' = mem'[s]
           /\ \A k \in SedeKeys :
                (stamps(disk, k) \ stamps(mem[s], k)) \cap stamps(disk', k) = {}
      ]_vars

\* one session appended and persisted a record that nobody deleted; the
\* other session, which had loaded before, then wrote its copy: the record
\* is in the first session's copy and no longer on disk
C11_Witness ==
    \E s \in Sessions : \E t \in Sessions \ {s} : \E a \in alive :
        /\ a[3] \in stamps(mem[s], a[1])
        /\ a[3] \notin stamps(mem[t], a[1])
        /\ disk = mem[t]
        /\ a[3] \notin stamps(disk, a[1])
        /\ pc[s] = "start" /\ pc[t] = "start"

====
